---------------------------- MODULE Spec2Model ----------------------------
(***************************************************************************)
(* Model of tapkee's entry point embed() (include/tapkee.hpp) and of the   *)
(* PCA helpers project(), compute_covariance_matrix() and                  *)
(* compute_centered_kernel_matrix() (src/methods/pca.hpp).                 *)
(*                                                                         *)
(* Five specifications share the variables:                                *)
(*   Spec          one call of embed(), statement by statement             *)
(*   SpecDefaults  the PUT_DEFAULT block, its macros taken in any order    *)
(*   SpecCov       compute_covariance_matrix on bounded inputs             *)
(*   SpecKernel    compute_centered_kernel_matrix on bounded inputs        *)
(*   SpecProject   project on bounded inputs                               *)
(*                                                                         *)
(* Scalars are exact: a matrix that the code scales by 1/n (or 1/n^2) is   *)
(* kept as integer numerators over that denominator.                       *)
(***************************************************************************)
EXTENDS Integers, Sequences, FiniteSets, TLC

VARIABLES
    \* ---- embed() ----
    pc,                 \* position inside embed(): which statement runs next
    parameters,         \* the ParametersMap (by-value argument, mutated by PUT_DEFAULT)
    params0,            \* the map the caller passed (history)
    n_samples,          \* end - begin
    with_arpack,        \* build flag TAPKEE_WITH_ARPACK
    use_covertree,      \* build flag TAPKEE_USE_LGPL_COVERTREE
    method,             \* local TAPKEE_METHOD method
    progress_function,  \* local void (*)(double)
    cancel_function,    \* local bool (*)()
    context,            \* tapkee_internal::Context
    return_result,      \* local ReturnResult (embedding, projecting function)
    variant_outcome,    \* what the invoked X_implementation did (history)
    invoked,            \* which X_implementation was called, or "none" (history)
    outcome,            \* "running", "returned", or the exception that left embed()
    raised_at,          \* the statement that raised it (history)
    \* ---- PUT_DEFAULT block taken macro by macro ----
    pending,            \* keys whose PUT_DEFAULT has not run yet
    passes,             \* how many times the whole block has been applied
    \* ---- pca.hpp ----
    data,               \* [begin,end): a sequence of opaque items
    feature_callback,   \* item -> feature vector
    kernel_callback,    \* (item, item) -> scalar
    dimension,          \* the unsigned int dimension argument
    projection_matrix,  \* projection_result.first
    pca_pc,             \* "ready" or "done"
    pca_result          \* what the helper returned

vars == << pc, parameters, params0, n_samples, with_arpack, use_covertree, method,
           progress_function, cancel_function, context, return_result,
           variant_outcome, invoked, outcome, raised_at, pending, passes,
           data, feature_callback, kernel_callback, dimension, projection_matrix,
           pca_pc, pca_result >>

embedVars == << pc, parameters, params0, n_samples, with_arpack, use_covertree, method,
                progress_function, cancel_function, context, return_result,
                variant_outcome, invoked, outcome, raised_at >>

defaultsVars == << pending, passes >>

pcaVars == << data, feature_callback, kernel_callback, dimension, projection_matrix,
              pca_pc, pca_result >>

---------------------------------------------------------------------------
(* Bounds *)

MaxSamples == 2

MaxTargetDim == 2

MaxLen == 3

MaxDim == 2

MaxVal == 1

MaxPasses == 1

---------------------------------------------------------------------------
(* Matrices: a matrix is a sequence of rows, each a sequence of integers. *)

Rows(M) == Len(M)

Cols(M) == IF Len(M) = 0 THEN 0 ELSE Len(M[1])

Zero(r, c) == [i \in 1..r |-> [j \in 1..c |-> 0]]

Transpose(M) == [j \in 1..Cols(M) |-> [i \in 1..Rows(M) |-> M[i][j]]]

RECURSIVE SumTo(_, _)
SumTo(f, k) == IF k = 0 THEN 0 ELSE f[k] + SumTo(f, k - 1)

---------------------------------------------------------------------------
(* The `any` values held by the ParametersMap: <<stored type, value>>. *)

MakeAny(type, value) == << type, value >>

TypeOf(a) == a[1]

ValueOf(a) == a[2]

EmptyAny == MakeAny("empty", "empty")

Absent == MakeAny("absent", "absent")

CastOk(a, type) == TypeOf(a) = type

Count(p, key) == key \in DOMAIN p

MethodSpecifiedAlways(p) == TRUE

MethodSpecified(p) == Count(p, "REDUCTION_METHOD")

Lookup(p, key) == IF key \in DOMAIN p THEN p[key] ELSE EmptyAny

Assign(p, key, a) == [k \in DOMAIN p \cup {key} |-> IF k = key THEN a ELSE p[k]]

---------------------------------------------------------------------------
(* TAPKEE_METHOD *)

SupportedMethods ==
    { "KERNEL_LOCALLY_LINEAR_EMBEDDING", "KERNEL_LOCAL_TANGENT_SPACE_ALIGNMENT",
      "DIFFUSION_MAP", "MULTIDIMENSIONAL_SCALING", "LANDMARK_MULTIDIMENSIONAL_SCALING",
      "ISOMAP", "LANDMARK_ISOMAP", "NEIGHBORHOOD_PRESERVING_EMBEDDING",
      "LINEAR_LOCAL_TANGENT_SPACE_ALIGNMENT", "HESSIAN_LOCALLY_LINEAR_EMBEDDING",
      "LAPLACIAN_EIGENMAPS", "LOCALITY_PRESERVING_PROJECTIONS", "PCA", "KERNEL_PCA",
      "RANDOM_PROJECTION", "STOCHASTIC_PROXIMITY_EMBEDDING", "PASS_THRU",
      "FACTOR_ANALYSIS", "T_DISTRIBUTED_STOCHASTIC_NEIGHBOR_EMBEDDING" }

\* A value of the enumerated type that has no case label in the switch.
UnlistedMethod == "UNLISTED_METHOD_VALUE"

MethodValues == SupportedMethods \cup { "UNKNOWN_METHOD", UnlistedMethod }

---------------------------------------------------------------------------
(* The PUT_DEFAULT block of embed().                                       *)

TargetDimensionDefault == 2

EigenMethodDefault(arpack) ==
    IF arpack THEN "ARPACK" ELSE "EIGEN_DENSE_SELFADJOINT_SOLVER"

\* The PUT_DEFAULT lines the build compiles, in source order: <<KEY, TYPE, VALUE>>.
DefaultSteps(arpack, covertree) ==
    << << "OUTPUT_FEATURE_VECTORS_ARE_COLUMNS", "bool", FALSE >>,
       << "EIGENSHIFT", "ScalarType", "1e-9" >>,
       << "KLLE_TRACE_SHIFT", "ScalarType", "1e-3" >>,
       << "CHECK_CONNECTIVITY", "bool", TRUE >>,
       << "EIGEN_EMBEDDING_METHOD", "TAPKEE_EIGEN_EMBEDDING_METHOD",
          EigenMethodDefault(arpack) >>,
       << "TARGET_DIMENSION", "IndexType", TargetDimensionDefault >> >>
    \o (IF covertree
        THEN << << "NEIGHBORS_METHOD", "TAPKEE_NEIGHBORS_METHOD", "COVER_TREE" >> >>
        ELSE << >>)

PUT_DEFAULT_Overwrite(p, KEY, TYPE, VALUE) == Assign(p, KEY, MakeAny(TYPE, VALUE))

PUT_DEFAULT(p, KEY, TYPE, VALUE) ==
    IF ~Count(p, KEY) THEN Assign(p, KEY, MakeAny(TYPE, VALUE)) ELSE p

RECURSIVE ApplySteps(_, _)
ApplySteps(p, steps) ==
    IF steps = << >>
    THEN p
    ELSE ApplySteps(PUT_DEFAULT(p, Head(steps)[1], Head(steps)[2], Head(steps)[3]),
                    Tail(steps))

PutDefaults(p, arpack, covertree) == ApplySteps(p, DefaultSteps(arpack, covertree))

StepKeys(arpack, covertree) ==
    { DefaultSteps(arpack, covertree)[i][1] :
        i \in 1..Len(DefaultSteps(arpack, covertree)) }

StepOf(key, arpack, covertree) ==
    LET steps == DefaultSteps(arpack, covertree)
    IN  steps[CHOOSE i \in 1..Len(steps) : steps[i][1] = key]

---------------------------------------------------------------------------
(* The execution context and the algorithm variants.                       *)

NULL == "NULL"

ContextWithoutCancel(progress, cancel) == [progress |-> progress, cancel |-> NULL]

Context(progress, cancel) == [progress |-> progress, cancel |-> cancel]

\* The embedding a variant hands back: n rows, d columns, every cell distinct.
VariantEmbedding(n, d) == [i \in 1..n |-> [j \in 1..d |-> (i - 1) * d + j]]

VariantErrors ==
    { "bad_alloc", "eigendecomposition_error", "missed_parameter_error",
      "unsupported_method_error" }

Thrown(e) == [kind |-> "throw", error |-> e, first |-> << >>, second |-> "none"]

Returned(first, second) ==
    [kind |-> "return", error |-> "none", first |-> first, second |-> second]

NotInvoked == [kind |-> "none", error |-> "none", first |-> << >>, second |-> "none"]

\* What X_implementation(begin, end, callbacks, parameters, context) may do.
\* A cancel hook that is true from the start is seen at the first checkpoint;
\* one that is false at the start may turn true later; no hook, no cancellation.
VariantOutcomes(m, p, n, ctx) ==
    IF ctx.cancel = "cancel_always_true"
    THEN { Thrown("cancelled_exception") }
    ELSE { Returned(VariantEmbedding(n, ValueOf(p["TARGET_DIMENSION"])), proj) :
             proj \in { "projection_of_" \o m } }
         \cup { Thrown(e) : e \in VariantErrors }
         \cup (IF ctx.cancel = NULL THEN {} ELSE { Thrown("cancelled_exception") })

---------------------------------------------------------------------------
(* embed(), statement by statement.                                        *)

EmptyResult == [first |-> << >>, second |-> "none"]

RethrowUnchanged(e) == e

\* catch (const std::bad_alloc&) { throw not_enough_memory_error(...); }
CatchBadAlloc(e) == IF e = "bad_alloc" THEN "not_enough_memory_error" ELSE e

UnknownMethodAsUnsupported == "unsupported_method_error"

\* case UNKNOWN_METHOD: throw wrong_parameter_error("unknown method");
UnknownMethodError == "wrong_parameter_error"

NeverTranspose(p, r) == r

\* if (parameters[OUTPUT_FEATURE_VECTORS_ARE_COLUMNS].cast<bool>()) transposeInPlace
PostProcessResult(p, r) ==
    IF ValueOf(Lookup(p, "OUTPUT_FEATURE_VECTORS_ARE_COLUMNS"))
    THEN [r EXCEPT !.first = Transpose(r.first)]
    ELSE r


\* if (!parameters.count(REDUCTION_METHOD)) throw missed_parameter_error(...)
CheckMethod ==
    /\ pc = "check_method"
    /\ IF ~MethodSpecified(parameters)
       THEN /\ pc' = "done"
            /\ outcome' = "missed_parameter_error"
            /\ raised_at' = "selector_missing"
       ELSE /\ pc' = "cast_method"
            /\ UNCHANGED << outcome, raised_at >>
    /\ UNCHANGED << parameters, params0, n_samples, with_arpack, use_covertree, method,
                    progress_function, cancel_function, context, return_result,
                    variant_outcome, invoked >>
    /\ UNCHANGED << defaultsVars, pcaVars >>

\* method = parameters[REDUCTION_METHOD].cast<TAPKEE_METHOD>(), bad_any_cast caught
CastMethod ==
    /\ pc = "cast_method"
    /\ IF CastOk(Lookup(parameters, "REDUCTION_METHOD"), "TAPKEE_METHOD")
       THEN /\ method' = ValueOf(Lookup(parameters, "REDUCTION_METHOD"))
            /\ pc' = "defaults"
            /\ UNCHANGED << outcome, raised_at >>
       ELSE /\ pc' = "done"
            /\ outcome' = "wrong_parameter_type_error"
            /\ raised_at' = "selector_cast"
            /\ UNCHANGED method
    /\ UNCHANGED << parameters, params0, n_samples, with_arpack, use_covertree,
                    progress_function, cancel_function, context, return_result,
                    variant_outcome, invoked >>
    /\ UNCHANGED << defaultsVars, pcaVars >>

\* the PUT_DEFAULT lines
Defaults ==
    /\ pc = "defaults"
    /\ parameters' = PutDefaults(parameters, with_arpack, use_covertree)
    /\ pc' = "hooks"
    /\ UNCHANGED << params0, n_samples, with_arpack, use_covertree, method,
                    progress_function, cancel_function, context, return_result,
                    variant_outcome, invoked, outcome, raised_at >>
    /\ UNCHANGED << defaultsVars, pcaVars >>

\* the two hook casts (no try block around them) and the Context constructor
ReadHooks ==
    /\ pc = "hooks"
    /\ IF Count(parameters, "PROGRESS_FUNCTION")
          /\ ~CastOk(parameters["PROGRESS_FUNCTION"], "void(*)(double)")
       THEN /\ pc' = "done"
            /\ outcome' = "bad_any_cast"
            /\ raised_at' = "progress_cast"
            /\ UNCHANGED << progress_function, cancel_function, context >>
       ELSE /\ progress_function' =
                  IF Count(parameters, "PROGRESS_FUNCTION")
                  THEN ValueOf(parameters["PROGRESS_FUNCTION"]) ELSE NULL
            /\ IF Count(parameters, "CANCEL_FUNCTION")
                  /\ ~CastOk(parameters["CANCEL_FUNCTION"], "bool(*)()")
               THEN /\ pc' = "done"
                    /\ outcome' = "bad_any_cast"
                    /\ raised_at' = "cancel_cast"
                    /\ UNCHANGED << cancel_function, context >>
               ELSE /\ cancel_function' =
                          IF Count(parameters, "CANCEL_FUNCTION")
                          THEN ValueOf(parameters["CANCEL_FUNCTION"]) ELSE NULL
                    /\ context' = Context(progress_function', cancel_function')
                    /\ pc' = "dispatch"
                    /\ UNCHANGED << outcome, raised_at >>
    /\ UNCHANGED << parameters, params0, n_samples, with_arpack, use_covertree, method,
                    return_result, variant_outcome, invoked >>
    /\ UNCHANGED << defaultsVars, pcaVars >>

\* try { switch (method) { HANDLE_IMPLEMENTATION(...) ...; case UNKNOWN_METHOD: throw } }
\* catch (const std::bad_alloc&)
Dispatch ==
    /\ pc = "dispatch"
    /\ IF method \in SupportedMethods
       THEN /\ invoked' = method
            /\ \E o \in VariantOutcomes(method, parameters, n_samples, context) :
                 /\ variant_outcome' = o
                 /\ IF o.kind = "return"
                    THEN /\ return_result' = [first |-> o.first, second |-> o.second]
                         /\ pc' = "post"
                         /\ UNCHANGED << outcome, raised_at >>
                    ELSE /\ pc' = "done"
                         /\ outcome' = CatchBadAlloc(o.error)
                         /\ raised_at' = IF CatchBadAlloc(o.error) = o.error
                                         THEN "variant" ELSE "bad_alloc_catch"
                         /\ UNCHANGED return_result
       ELSE IF method = "UNKNOWN_METHOD"
       THEN /\ pc' = "done"
            /\ outcome' = CatchBadAlloc(UnknownMethodError)
            /\ raised_at' = "unknown_method"
            /\ UNCHANGED << return_result, variant_outcome, invoked >>
       ELSE \* no case label and no default: the switch is left, nothing was called
            /\ pc' = "post"
            /\ UNCHANGED << return_result, variant_outcome, invoked, outcome, raised_at >>
    /\ UNCHANGED << parameters, params0, n_samples, with_arpack, use_covertree, method,
                    progress_function, cancel_function, context >>
    /\ UNCHANGED << defaultsVars, pcaVars >>

\* the orientation cast (no try block around it), the transpose and the return
PostProcess ==
    /\ pc = "post"
    /\ IF CastOk(Lookup(parameters, "OUTPUT_FEATURE_VECTORS_ARE_COLUMNS"), "bool")
       THEN /\ return_result' = PostProcessResult(parameters, return_result)
            /\ outcome' = "returned"
            /\ UNCHANGED raised_at
       ELSE /\ outcome' = "bad_any_cast"
            /\ raised_at' = "orientation_cast"
            /\ UNCHANGED return_result
    /\ pc' = "done"
    /\ UNCHANGED << parameters, params0, n_samples, with_arpack, use_covertree, method,
                    progress_function, cancel_function, context,
                    variant_outcome, invoked >>
    /\ UNCHANGED << defaultsVars, pcaVars >>

---------------------------------------------------------------------------
(* Inputs of embed().                                                      *)

MethodChoices ==
    { Absent, MakeAny("const char*", "pca") }
    \cup { MakeAny("TAPKEE_METHOD", m) : m \in MethodValues }

OrientationChoices ==
    { Absent, MakeAny("bool", TRUE), MakeAny("bool", FALSE), MakeAny("int", "1") }

ProgressChoices ==
    { Absent, MakeAny("void(*)(double)", "progress_hook"), MakeAny("int", "0") }

CancelChoices ==
    { Absent, MakeAny("bool(*)()", "cancel_always_true"),
      MakeAny("bool(*)()", "cancel_false_at_start"), MakeAny("int", "0") }

TargetDimensionChoices ==
    { Absent } \cup { MakeAny("IndexType", d) : d \in 1..MaxTargetDim }

\* The map holding exactly the entries that are not Absent.
MapOf(entries) ==
    [k \in { k \in DOMAIN entries : TypeOf(entries[k]) # "absent" } |-> entries[k]]

IdleDefaults ==
    /\ pending = {}
    /\ passes = 0

IdlePca ==
    /\ data = << >>
    /\ feature_callback = << >>
    /\ kernel_callback = << >>
    /\ dimension = 0
    /\ projection_matrix = << >>
    /\ pca_pc = "idle"
    /\ pca_result = [status |-> "none", scale |-> 1, matrix |-> << >>]

IdleEmbed ==
    /\ pc = "idle"
    /\ parameters = << >>
    /\ params0 = << >>
    /\ n_samples = 0
    /\ with_arpack = FALSE
    /\ use_covertree = FALSE
    /\ method = "unset"
    /\ progress_function = NULL
    /\ cancel_function = NULL
    /\ context = Context(NULL, NULL)
    /\ return_result = EmptyResult
    /\ variant_outcome = NotInvoked
    /\ invoked = "none"
    /\ outcome = "running"
    /\ raised_at = "none"

EmbedLocals ==
    /\ method = "unset"
    /\ progress_function = NULL
    /\ cancel_function = NULL
    /\ context = Context(NULL, NULL)
    /\ return_result = EmptyResult
    /\ variant_outcome = NotInvoked
    /\ invoked = "none"
    /\ outcome = "running"
    /\ raised_at = "none"

Init ==
    /\ \E m \in MethodChoices, o \in OrientationChoices, pf \in ProgressChoices,
          cf \in CancelChoices, td \in TargetDimensionChoices :
         parameters = MapOf([REDUCTION_METHOD |-> m,
                             OUTPUT_FEATURE_VECTORS_ARE_COLUMNS |-> o,
                             PROGRESS_FUNCTION |-> pf,
                             CANCEL_FUNCTION |-> cf,
                             TARGET_DIMENSION |-> td])
    /\ params0 = parameters
    /\ n_samples \in 1..MaxSamples
    /\ with_arpack \in BOOLEAN
    /\ use_covertree \in BOOLEAN
    /\ pc = "check_method"
    /\ EmbedLocals
    /\ IdleDefaults
    /\ IdlePca

Next ==
    \/ CheckMethod
    \/ CastMethod
    \/ Defaults
    \/ ReadHooks
    \/ Dispatch
    \/ PostProcess

Spec == Init /\ [][Next]_vars

---------------------------------------------------------------------------
(* The PUT_DEFAULT block on its own, its lines taken in any order, and     *)
(* then the whole block applied again.                                     *)

InitDefaults ==
    /\ \E o \in { Absent, MakeAny("bool", TRUE), MakeAny("int", "1") },
          es \in { Absent, MakeAny("ScalarType", "1e-6") },
          ts \in { Absent, MakeAny("ScalarType", "1e-2") },
          cc \in { Absent, MakeAny("bool", FALSE) },
          em \in { Absent, MakeAny("TAPKEE_EIGEN_EMBEDDING_METHOD", "RANDOMIZED") },
          td \in TargetDimensionChoices,
          nm \in { Absent, MakeAny("TAPKEE_NEIGHBORS_METHOD", "BRUTE") } :
         parameters = MapOf([REDUCTION_METHOD |-> MakeAny("TAPKEE_METHOD", "PCA"),
                             OUTPUT_FEATURE_VECTORS_ARE_COLUMNS |-> o,
                             EIGENSHIFT |-> es,
                             KLLE_TRACE_SHIFT |-> ts,
                             CHECK_CONNECTIVITY |-> cc,
                             EIGEN_EMBEDDING_METHOD |-> em,
                             TARGET_DIMENSION |-> td,
                             NEIGHBORS_METHOD |-> nm])
    /\ params0 = parameters
    /\ n_samples = 0
    /\ with_arpack \in BOOLEAN
    /\ use_covertree \in BOOLEAN
    /\ pc = "defaults"
    /\ EmbedLocals
    /\ pending = StepKeys(with_arpack, use_covertree)
    /\ passes = 0
    /\ IdlePca

\* one PUT_DEFAULT line
PutOneDefault ==
    /\ pending # {}
    /\ \E key \in pending :
         LET step == StepOf(key, with_arpack, use_covertree)
         IN  /\ parameters' = PUT_DEFAULT(parameters, step[1], step[2], step[3])
             /\ pending' = pending \ {key}
    /\ UNCHANGED << pc, params0, n_samples, with_arpack, use_covertree, method,
                    progress_function, cancel_function, context, return_result,
                    variant_outcome, invoked, outcome, raised_at, passes >>
    /\ UNCHANGED pcaVars

\* the whole block once more, on the configuration it produced
PutDefaultsAgain ==
    /\ pending = {}
    /\ passes < MaxPasses
    /\ parameters' = PutDefaults(parameters, with_arpack, use_covertree)
    /\ passes' = passes + 1
    /\ UNCHANGED << pc, params0, n_samples, with_arpack, use_covertree, method,
                    progress_function, cancel_function, context, return_result,
                    variant_outcome, invoked, outcome, raised_at, pending >>
    /\ UNCHANGED pcaVars

NextDefaults ==
    \/ PutOneDefault
    \/ PutDefaultsAgain

SpecDefaults == InitDefaults /\ [][NextDefaults]_vars

---------------------------------------------------------------------------
(* pca.hpp.  Items are opaque; only the callbacks look inside them.        *)

Items == { "a", "b" }

DataSequences == UNION { [1..n -> Items] : n \in 1..MaxLen }

FeatureCallbacks(d) == [Items -> [1..d -> 0..MaxVal]]

KernelCallbacks == [Items \X Items -> (0 - MaxVal)..MaxVal]

RankUpdateFull(M, v, alpha) ==
    [r \in 1..Rows(M) |-> [c \in 1..Cols(M) |-> M[r][c] + alpha * v[r] * v[c]]]

\* M.selfadjointView<Eigen::Upper>().rankUpdate(v, alpha): only cells with r <= c
RankUpdateUpper(M, v, alpha) ==
    [r \in 1..Rows(M) |->
        [c \in 1..Cols(M) |->
            IF r <= c THEN M[r][c] + alpha * v[r] * v[c] ELSE M[r][c]]]

VectorAdd(u, v) == [k \in 1..Len(u) |-> u[k] + v[k]]

\* The for loop of compute_covariance_matrix from item i on; alpha 1.0 is n/n.
RECURSIVE CovarianceLoop(_, _, _, _, _)
CovarianceLoop(cov, sum, d, callback, i) ==
    IF i > Len(d)
    THEN [covariance_matrix |-> cov, sum |-> sum]
    ELSE LET current_vector == callback[d[i]]
         IN  CovarianceLoop(RankUpdateUpper(cov, current_vector, Len(d)),
                            VectorAdd(sum, current_vector), d, callback, i + 1)

\* The returned matrix as numerators over the denominator n = end - begin.
compute_covariance_matrix(d, callback, dim) ==
    LET acc == CovarianceLoop(Zero(dim, dim), [k \in 1..dim |-> 0], d, callback, 1)
    IN  [status |-> "returned",
         scale |-> Len(d),
         matrix |-> RankUpdateUpper(acc.covariance_matrix, acc.sum, 0 - 1)]

FillKernelUnmirrored(d, callback) ==
    [i \in 1..Len(d) |-> [j \in 1..Len(d) |-> callback[<< d[i], d[j] >>]]]

\* The two nested loops: j runs from i, the value is stored at (i,j) and (j,i).
FillKernel(d, callback) ==
    [i \in 1..Len(d) |->
        [j \in 1..Len(d) |->
            IF i <= j THEN callback[<< d[i], d[j] >>] ELSE callback[<< d[j], d[i] >>]]]

\* n * kernel_matrix.colwise().mean()
ColSums(K) == [c \in 1..Cols(K) |-> SumTo([r \in 1..Rows(K) |-> K[r][c]], Rows(K))]

RowSums(K) == [r \in 1..Rows(K) |-> SumTo(K[r], Cols(K))]

\* n * n * kernel_matrix.mean()
GrandSum(K) == SumTo(RowSums(K), Rows(K))

\* The returned matrix as numerators over the denominator n * n.
compute_centered_kernel_matrix(d, callback) ==
    LET n == Len(d)
        kernel_matrix == FillKernel(d, callback)
        col_means == ColSums(kernel_matrix)
        grand_mean == GrandSum(kernel_matrix)
        plus_grand == [i \in 1..n |-> [j \in 1..n |->
                         n * n * kernel_matrix[i][j] + grand_mean]]
        colwise == [i \in 1..n |-> [j \in 1..n |-> plus_grand[i][j] - n * col_means[i]]]
        rowwise == [i \in 1..n |-> [j \in 1..n |-> colwise[i][j] - n * col_means[j]]]
    IN  [status |-> "returned", scale |-> n * n, matrix |-> rowwise]

\* Entry k of a vector; past its end the read is out of bounds and yields g.
ReadVector(v, k, g) == IF k <= Len(v) THEN v[k] ELSE g

\* projection_matrix.transpose() * current_vector, the inner size taken from the matrix
TransposeTimes(P, v, g) ==
    [c \in 1..Cols(P) |->
        SumTo([r \in 1..Rows(P) |-> P[r][c] * ReadVector(v, r, g)], Rows(P))]

\* project(): no size check; a product of mismatched sizes is undefined behaviour,
\* which a build with Eigen's assertions aborts on and another build computes from
\* whatever lies past the vector (g), or from a prefix of it.
project(P, d, callback, dim, asserts, g) ==
    IF dim # Rows(P) /\ asserts
    THEN [status |-> "assertion_abort", scale |-> 1, matrix |-> << >>]
    ELSE [status |-> "returned",
          scale |-> 1,
          matrix |-> [i \in 1..Len(d) |-> TransposeTimes(P, callback[d[i]], g)]]

\* an identity-like basis: ones on the diagonal, s elsewhere
ProjectionMatrices ==
    { [r \in 1..rows |-> [c \in 1..cols |-> IF r = c THEN 1 ELSE s]] :
        rows \in 1..MaxDim, cols \in 1..MaxDim, s \in 0..MaxVal }

InitCov ==
    /\ IdleEmbed
    /\ IdleDefaults
    /\ data \in DataSequences
    /\ dimension \in 1..MaxDim
    /\ feature_callback \in FeatureCallbacks(dimension)
    /\ kernel_callback = << >>
    /\ projection_matrix = << >>
    /\ pca_pc = "ready"
    /\ pca_result = [status |-> "none", scale |-> 1, matrix |-> << >>]

ComputeCovariance ==
    /\ pca_pc = "ready"
    /\ pca_result' = compute_covariance_matrix(data, feature_callback, dimension)
    /\ pca_pc' = "done"
    /\ UNCHANGED << data, feature_callback, kernel_callback, dimension, projection_matrix >>
    /\ UNCHANGED << embedVars, defaultsVars >>

NextCov == ComputeCovariance

SpecCov == InitCov /\ [][NextCov]_vars

InitKernel ==
    /\ IdleEmbed
    /\ IdleDefaults
    /\ data \in DataSequences
    /\ dimension = 0
    /\ feature_callback = << >>
    /\ kernel_callback \in KernelCallbacks
    /\ projection_matrix = << >>
    /\ pca_pc = "ready"
    /\ pca_result = [status |-> "none", scale |-> 1, matrix |-> << >>]

ComputeCenteredKernel ==
    /\ pca_pc = "ready"
    /\ pca_result' = compute_centered_kernel_matrix(data, kernel_callback)
    /\ pca_pc' = "done"
    /\ UNCHANGED << data, feature_callback, kernel_callback, dimension, projection_matrix >>
    /\ UNCHANGED << embedVars, defaultsVars >>

NextKernel == ComputeCenteredKernel

SpecKernel == InitKernel /\ [][NextKernel]_vars

InitProject ==
    /\ IdleEmbed
    /\ IdleDefaults
    /\ data \in DataSequences
    /\ dimension \in 1..MaxDim
    /\ feature_callback \in FeatureCallbacks(dimension)
    /\ kernel_callback = << >>
    /\ projection_matrix \in ProjectionMatrices
    /\ pca_pc = "ready"
    /\ pca_result = [status |-> "none", scale |-> 1, matrix |-> << >>]

Project ==
    /\ pca_pc = "ready"
    /\ \E asserts \in BOOLEAN, g \in 0..MaxVal :
         pca_result' = project(projection_matrix, data, feature_callback, dimension,
                               asserts, g)
    /\ pca_pc' = "done"
    /\ UNCHANGED << data, feature_callback, kernel_callback, dimension, projection_matrix >>
    /\ UNCHANGED << embedVars, defaultsVars >>

NextProject == Project

SpecProject == InitProject /\ [][NextProject]_vars

---------------------------------------------------------------------------
(* Properties of embed(), checked under Spec.                              *)

Selector == Lookup(params0, "REDUCTION_METHOD")

HookCasts == { "progress_cast", "cancel_cast" }

ConfigurationErrors ==
    { "missed_parameter_error", "wrong_parameter_type_error", "wrong_parameter_error" }

\* C1: a map without REDUCTION_METHOD makes embed() throw missed_parameter_error at
\* its first statement, whatever else the map holds, and no variant is ever invoked.
C1_MissingSelector ==
    ~Count(params0, "REDUCTION_METHOD") =>
        /\ pc \in { "check_method", "done" }
        /\ invoked = "none"
        /\ variant_outcome = NotInvoked
        /\ pc = "done" => outcome = "missed_parameter_error"

C1_Witness ==
    /\ pc = "done"
    /\ ~Count(params0, "REDUCTION_METHOD")
    /\ outcome = "missed_parameter_error"
    /\ TypeOf(Lookup(params0, "OUTPUT_FEATURE_VECTORS_ARE_COLUMNS")) = "int"
    /\ TypeOf(Lookup(params0, "PROGRESS_FUNCTION")) = "int"
    /\ Count(params0, "CANCEL_FUNCTION")

C3_VariantErrors ==
    (invoked # "none" /\ variant_outcome.kind = "throw") =>
        /\ pc = "done"
        /\ outcome # "returned"
        /\ return_result = EmptyResult
        /\ variant_outcome.error = "bad_alloc" => outcome = "not_enough_memory_error"
        /\ variant_outcome.error = "cancelled_exception" => outcome = "cancelled_exception"
        /\ variant_outcome.error # "bad_alloc" => outcome = variant_outcome.error

C3_Witness ==
    /\ pc = "done"
    /\ invoked = "ISOMAP"
    /\ variant_outcome.error = "bad_alloc"
    /\ outcome = "not_enough_memory_error"

CancelAlwaysTrue ==
    Lookup(params0, "CANCEL_FUNCTION") = MakeAny("bool(*)()", "cancel_always_true")

SelectorSupported ==
    /\ TypeOf(Selector) = "TAPKEE_METHOD"
    /\ ValueOf(Selector) \in SupportedMethods

ColumnsRequested ==
    Lookup(params0, "OUTPUT_FEATURE_VECTORS_ARE_COLUMNS") = MakeAny("bool", TRUE)

\* C6: when embed() returns after a variant returned (embedding V, projection f):
\* with the orientation flag true, the returned matrix has V's sizes swapped and cell
\* (j,i) equal to V's cell (i,j); with the flag false or absent it is V itself; the
\* projection is f in both.  So for one V the column-per-sample result is exactly the
\* transpose of the row-per-sample result.
C6_OrientationRoundTrip ==
    (pc = "done" /\ outcome = "returned" /\ invoked # "none") =>
        LET V == variant_outcome.first
            R == return_result.first
        IN  /\ return_result.second = variant_outcome.second
            /\ ColumnsRequested =>
                  /\ Rows(R) = Cols(V)
                  /\ Cols(R) = Rows(V)
                  /\ \A i \in 1..Rows(V), j \in 1..Cols(V) : R[j][i] = V[i][j]
            /\ ~ColumnsRequested => R = V

C6_Witness ==
    /\ pc = "done"
    /\ outcome = "returned"
    /\ ColumnsRequested
    /\ Rows(variant_outcome.first) = 2
    /\ Cols(variant_outcome.first) = 1
    /\ return_result.first = << << 1, 2 >> >>

\* C10 as stated: an error embed() raises over a value it reads itself is one of
\* missed_parameter_error, wrong_parameter_type_error, wrong_parameter_error, and it
\* is raised before any variant was invoked.
C10_FailFast ==
    (pc = "done" /\ raised_at \in { "selector_missing", "selector_cast", "unknown_method",
                                    "progress_cast", "cancel_cast", "orientation_cast" })
        => (outcome \in ConfigurationErrors /\ invoked = "none")

---------------------------------------------------------------------------
(* Properties of the PUT_DEFAULT block, checked under SpecDefaults.        *)

FixedDefault(key) ==
    CASE key = "OUTPUT_FEATURE_VECTORS_ARE_COLUMNS" -> MakeAny("bool", FALSE)
      [] key = "EIGENSHIFT" -> MakeAny("ScalarType", "1e-9")
      [] key = "KLLE_TRACE_SHIFT" -> MakeAny("ScalarType", "1e-3")
      [] key = "CHECK_CONNECTIVITY" -> MakeAny("bool", TRUE)
      [] key = "TARGET_DIMENSION" -> MakeAny("IndexType", 2)
      [] key = "EIGEN_EMBEDDING_METHOD" ->
            MakeAny("TAPKEE_EIGEN_EMBEDDING_METHOD",
                    IF with_arpack THEN "ARPACK" ELSE "EIGEN_DENSE_SELFADJOINT_SOLVER")
      [] key = "NEIGHBORS_METHOD" -> MakeAny("TAPKEE_NEIGHBORS_METHOD", "COVER_TREE")

DefaultedKeys ==
    { "OUTPUT_FEATURE_VECTORS_ARE_COLUMNS", "EIGENSHIFT", "KLLE_TRACE_SHIFT",
      "CHECK_CONNECTIVITY", "TARGET_DIMENSION", "EIGEN_EMBEDDING_METHOD" }
    \cup (IF use_covertree THEN { "NEIGHBORS_METHOD" } ELSE {})

\* C4: a supplied parameter keeps the caller's value at every point of the block; once
\* every PUT_DEFAULT line has run, in whatever order, the map holds the caller's
\* entries plus the fixed default of each absent optional parameter, which is what
\* the lines give in source order; applying the whole block again changes nothing.
C4_Defaulting ==
    /\ \A key \in DOMAIN params0 : Count(parameters, key) /\ parameters[key] = params0[key]
    /\ pending = {} =>
          /\ DOMAIN parameters = DOMAIN params0 \cup DefaultedKeys
          /\ \A key \in DefaultedKeys \ DOMAIN params0 :
                parameters[key] = FixedDefault(key)
          /\ parameters = PutDefaults(params0, with_arpack, use_covertree)
          /\ PutDefaults(parameters, with_arpack, use_covertree) = parameters

C4_Witness ==
    /\ pending = {}
    /\ passes = 1
    /\ Lookup(params0, "EIGENSHIFT") = MakeAny("ScalarType", "1e-6")
    /\ Lookup(params0, "OUTPUT_FEATURE_VECTORS_ARE_COLUMNS") = MakeAny("bool", TRUE)
    /\ ~Count(params0, "TARGET_DIMENSION")
    /\ ~Count(params0, "CHECK_CONNECTIVITY")
    /\ parameters["TARGET_DIMENSION"] = MakeAny("IndexType", 2)

---------------------------------------------------------------------------
(* Properties of pca.hpp.                                                  *)

\* C7 (SpecKernel): every row sum and every column sum of the matrix that
\* compute_centered_kernel_matrix returns is zero, symmetric callback or not.
C7_CenteredSums ==
    pca_pc = "done" =>
        LET M == pca_result.matrix
            n == Len(data)
        IN  /\ Rows(M) = n
            /\ Cols(M) = n
            /\ \A i \in 1..n : SumTo(M[i], n) = 0
            /\ \A j \in 1..n : SumTo([i \in 1..n |-> M[i][j]], n) = 0

C7_Witness ==
    /\ pca_pc = "done"
    /\ Len(data) = 3
    /\ data[1] # data[2]
    /\ kernel_callback[<< "a", "b" >>] # kernel_callback[<< "b", "a" >>]
    /\ pca_result.matrix[1][2] # 0

\* n times entry (r,c) of  sum_i x_i x_i^T - (1/n)(sum_i x_i)(sum_i x_i)^T
CovarianceEntry(r, c) ==
    LET n == Len(data)
        x(i) == feature_callback[data[i]]
    IN  n * SumTo([i \in 1..n |-> x(i)[r] * x(i)[c]], n)
        - SumTo([i \in 1..n |-> x(i)[r]], n) * SumTo([i \in 1..n |-> x(i)[c]], n)

\* C8 as stated (SpecCov): every entry of the returned matrix, in both triangles,
\* is the entry of C, and the matrix is symmetric as stored.
C8_Original ==
    pca_pc = "done" =>
        \A r \in 1..dimension, c \in 1..dimension :
            /\ pca_result.matrix[r][c] = CovarianceEntry(r, c)
            /\ pca_result.matrix[r][c] = pca_result.matrix[c][r]

\* C8 amended (SpecCov): the returned matrix holds C on and above the diagonal; the
\* cells below the diagonal are never written and are zero.
C8_UpperTriangle ==
    pca_pc = "done" =>
        /\ pca_result.scale = Len(data)
        /\ Rows(pca_result.matrix) = dimension
        /\ Cols(pca_result.matrix) = dimension
        /\ \A r \in 1..dimension, c \in 1..dimension :
              pca_result.matrix[r][c] = IF r <= c THEN CovarianceEntry(r, c) ELSE 0

C8_Witness ==
    /\ pca_pc = "done"
    /\ dimension >= 2
    /\ CovarianceEntry(2, 1) # 0
    /\ pca_result.matrix[1][2] = CovarianceEntry(2, 1)
    /\ pca_result.matrix[2][1] = 0

\* C9 as stated (SpecProject): project() ends in a dimension-mismatch error when the
\* feature vectors' length differs from the basis' row count and returns no matrix;
\* otherwise it returns one row per item.
C9_DimensionMismatch ==
    pca_pc = "done" =>
        IF dimension # Rows(projection_matrix)
        THEN pca_result.status = "dimension_mismatch_error" /\ pca_result.matrix = << >>
        ELSE pca_result.status = "returned" /\ Rows(pca_result.matrix) = Len(data)

=============================================================================
